---- MODULE Spec2Model ----
(***************************************************************************)
(* State-machine model of one invocation of handle_user_query              *)
(* (query_pipeline.py) together with the two retrieval functions it calls, *)
(* query_relational_db and query_vector_db (retriever.py).                 *)
(*                                                                         *)
(* The external collaborators (the language model, psycopg2 connect /      *)
(* execute / fetchall / rollback / close, the sentence-transformer encode) *)
(* are opaque: every call either succeeds with a value drawn from a small  *)
(* set or raises.  A failed execute, fetch or rollback may or may not      *)
(* leave the connection broken (psycopg2's conn.closed becoming non-zero). *)
(* conn.close() is taken to succeed: psycopg2 makes it a no-op on a        *)
(* connection that is already closed and it does not report errors.        *)
(***************************************************************************)
EXTENDS Integers, Sequences, FiniteSets, TLC

\* ---------------------------------------------------------------- bounds
\* Longest language-model response, in tokens.
MaxLen == 5
\* Most rows the evidence store returns for one query in the model.
MaxRows == 4

\* ------------------------------------------------------ program constants
TOP_K == 5
KeywordRank == 100
FusedLimit == 10

ERR_UNDERSTAND == "Sorry, I had trouble understanding."
ERR_FORMULATE == "Sorry, I had trouble formulating a response."
BLOCKED == "Sorry, the response was blocked."
LLM_TEXT == "final_response.text"
NO_DOCS == "No relevant documents found."
MODEL_ERR == "Error: SentenceTransformer model is not loaded."
DB_ERR == "Database connection error."
SQL_ERR == "SQL error"
NO_RESULTS == "No results found for that query."
None == "None"

\* ------------------------------------------------------------ input sets
\* Passage texts / row values the evidence store can hold.
Texts == {"A", "B", "C"}

\* JSON object bodies a response can carry between a pair of braces.
Bodies == {"S1", "S2", "M1", "SE", "ME", "U"}

\* Response tokens: the two brace characters, an object body, other prose.
Tokens == {"{", "}", "x"} \cup Bodies

Min(a, b) == IF a <= b THEN a ELSE b

SeqsUpTo(S, n) == UNION {[1..k -> S] : k \in 0..n}

Responses == SeqsUpTo(Tokens, MaxLen)

\* Rows a vector / keyword / SQL query can return.
RowLists == SeqsUpTo(Texts, Min(TOP_K, MaxRows))

\* ------------------------------------------- _parse_json_from_response
\* The dict a JSON object body decodes to.
BodyDict(b) ==
    CASE b = "S1" -> [intent |-> "structured", query |-> "Q1"]
      [] b = "S2" -> [intent |-> "structured", query |-> "Q2"]
      [] b = "M1" -> [intent |-> "semantic", query |-> "P1"]
      [] b = "SE" -> [intent |-> "structured", query |-> ""]
      [] b = "ME" -> [intent |-> "semantic", query |-> ""]
      [] OTHER    -> [intent |-> "chat", query |-> "hello"]

\* {} decodes to the empty dict: .get("intent") and .get("query") are None.
EmptyDict == [intent |-> None, query |-> None]

NoJsonDict == [intent |-> "error", query |-> "Could not parse."]
InvalidJsonDict == [intent |-> "error", query |-> "Invalid JSON."]

\* re.search(r"\{.*\}", text, re.DOTALL): leftmost "{", then greedily to the
\* last "}" after it.  <<>> stands for "no match".
RegexMatch(text) ==
    LET opens == {i \in 1..Len(text) : text[i] = "{"}
    IN  IF opens = {} THEN <<>>
        ELSE LET i == CHOOSE a \in opens : \A b \in opens : a <= b
                 closes == {j \in (i + 1)..Len(text) : text[j] = "}"}
             IN  IF closes = {} THEN <<>>
                 ELSE LET j == CHOOSE a \in closes : \A b \in closes : b <= a
                      IN  SubSeq(text, i, j)

\* json.loads succeeds exactly on one brace pair around nothing or one body.
JsonDecodes(s) ==
    \/ s = <<"{", "}">>
    \/ Len(s) = 3 /\ s[1] = "{" /\ s[2] \in Bodies /\ s[3] = "}"

JsonLoads(s) == IF Len(s) = 2 THEN EmptyDict ELSE BodyDict(s[2])

_parse_json_from_response(text) ==
    LET json_str == RegexMatch(text)
    IN  IF json_str = <<>> THEN NoJsonDict
        ELSE IF JsonDecodes(json_str) THEN JsonLoads(json_str)
        ELSE InvalidJsonDict

\* Python truthiness of the parsed "query" value.
Falsy(q) == q = None \/ q = ""

\* ------------------------------------------------------ rank fusion
\* combined_results_map is a Python dict: a sequence of [k, v] entries in
\* insertion order; assigning to an existing key keeps its position.
DictKeys(d) == {d[i].k : i \in 1..Len(d)}

DictSet(d, key, val) ==
    IF key \in DictKeys(d)
    THEN [i \in 1..Len(d) |-> IF d[i].k = key THEN [k |-> key, v |-> val] ELSE d[i]]
    ELSE Append(d, [k |-> key, v |-> val])

\* for i, row in enumerate(rows): combined_results_map[row[0]] = i
RECURSIVE MergeVectorFrom(_, _, _)
MergeVectorFrom(d, rows, i) ==
    IF i > Len(rows) THEN d
    ELSE MergeVectorFrom(DictSet(d, rows[i], i - 1), rows, i + 1)

MergeVector(d, rows) == MergeVectorFrom(d, rows, 1)

\* Variant that overwrites the rank of a text the vector search already found.
RECURSIVE MergeKeywordOverwrite(_, _)
MergeKeywordOverwrite(d, rows) ==
    IF rows = <<>> THEN d
    ELSE MergeKeywordOverwrite(DictSet(d, Head(rows), KeywordRank), Tail(rows))

\* for row in rows: if row[0] not in combined_results_map: ...[row[0]] = 100
RECURSIVE MergeKeyword(_, _)
MergeKeyword(d, rows) ==
    IF rows = <<>> THEN d
    ELSE MergeKeyword(IF Head(rows) \in DictKeys(d) THEN d
                      ELSE DictSet(d, Head(rows), KeywordRank),
                      Tail(rows))

\* Stable insertion of one entry into a sequence sorted by v.
RECURSIVE InsertByRank(_, _)
InsertByRank(sorted, e) ==
    IF sorted = <<>> THEN <<e>>
    ELSE IF Head(sorted).v <= e.v THEN <<Head(sorted)>> \o InsertByRank(Tail(sorted), e)
    ELSE <<e>> \o sorted

RECURSIVE SortByRankFrom(_, _, _)
SortByRankFrom(acc, d, i) ==
    IF i > Len(d) THEN acc
    ELSE SortByRankFrom(InsertByRank(acc, d[i]), d, i + 1)

\* sorted(combined_results_map.keys(), key=lambda x: combined_results_map[x])
SortedKeys(d) ==
    LET s == SortByRankFrom(<<>>, d, 1) IN [i \in 1..Len(s) |-> s[i].k]

\* Lines 145-154: sort, sentinel for an empty list, top-10 slice.
RankedResults(d) ==
    LET ranked_results == SortedKeys(d)
    IN  IF ranked_results = <<>> THEN <<NO_DOCS>>
        ELSE SubSeq(ranked_results, 1, Min(FusedLimit, Len(ranked_results)))

\* ------------------------------------------------------------------ state
VARIABLES
    pc,                    \* position in handle_user_query and its callees
    model,                 \* retriever.model: TRUE when loaded, FALSE when None
    parser_response,       \* text of the classification response
    parsed_intent,         \* dict returned by _parse_json_from_response
    llmCalls,              \* prompts sent to generation_model, in order
    sql_query,             \* argument of query_relational_db (None: not called)
    query_text,            \* argument of query_vector_db (None: not called)
    conn,                  \* local conn: "none", "open" or "closed"
    nOpened,               \* connections _connect_to_db has opened
    combined_results_map,  \* dict text -> rank, in insertion order
    vecStatus,             \* vector search: "none", "ok" or "raised"
    vecRows,               \* rows the vector search fetched
    lexStatus,             \* keyword search: "none", "ok" or "raised"
    lexRows,               \* rows the keyword search fetched
    execStatus,            \* SQL execution: "none", "ok" or "raised"
    rolledBack,            \* conn.rollback() completed
    exc,                   \* an exception is propagating through a finally
    results,               \* value the retrieval function holds / returns
    context,               \* evidence handed to the synthesis prompt
    outcome,               \* "running", "returned" or "raised"
    answer                 \* string handle_user_query returns

vars == <<pc, model, parser_response, parsed_intent, llmCalls, sql_query,
          query_text, conn, nOpened, combined_results_map, vecStatus, vecRows,
          lexStatus, lexRows, execStatus, rolledBack, exc, results, context,
          outcome, answer>>

NoContext == [kind |-> "unset", val |-> <<>>]

Init ==
    /\ pc = "classify"
    /\ model \in BOOLEAN
    /\ parser_response = <<>>
    /\ parsed_intent = EmptyDict
    /\ llmCalls = <<>>
    /\ sql_query = None
    /\ query_text = None
    /\ conn = "none"
    /\ nOpened = 0
    /\ combined_results_map = <<>>
    /\ vecStatus = "none"
    /\ vecRows = <<>>
    /\ lexStatus = "none"
    /\ lexRows = <<>>
    /\ execStatus = "none"
    /\ rolledBack = FALSE
    /\ exc = FALSE
    /\ results = <<>>
    /\ context = NoContext
    /\ outcome = "running"
    /\ answer = None

retrievalVars == <<sql_query, query_text, conn, nOpened, combined_results_map,
                   vecStatus, vecRows, lexStatus, lexRows, execStatus,
                   rolledBack, exc, results, context>>

\* ------------------------------------------- handle_user_query, lines 143-148
\* generate_content (or reading .text) raises: the except returns the apology.
ClassifyRaises ==
    /\ pc = "classify"
    /\ llmCalls' = Append(llmCalls, "classification")
    /\ answer' = ERR_UNDERSTAND
    /\ outcome' = "returned"
    /\ pc' = "done"
    /\ UNCHANGED <<model, parser_response, parsed_intent>>
    /\ UNCHANGED retrievalVars

ClassifyReturns ==
    /\ pc = "classify"
    /\ \E text \in Responses : parser_response' = text
    /\ llmCalls' = Append(llmCalls, "classification")
    /\ pc' = "parse"
    /\ UNCHANGED <<model, parsed_intent, outcome, answer>>
    /\ UNCHANGED retrievalVars

Parse ==
    /\ pc = "parse"
    /\ parsed_intent' = _parse_json_from_response(parser_response)
    /\ pc' = "retrieve"
    /\ UNCHANGED <<model, parser_response, llmCalls, outcome, answer>>
    /\ UNCHANGED retrievalVars

\* ------------------------------------------- handle_user_query, lines 150-168
\* Variant without the final else: anything not structured goes to the
\* hybrid search.
DispatchNoElse ==
    /\ pc = "retrieve"
    /\ LET intent == parsed_intent.intent
           query == parsed_intent.query
       IN  IF intent = "structured" /\ ~Falsy(query)
           THEN /\ sql_query' = query
                /\ pc' = "rel_connect"
                /\ UNCHANGED <<query_text, context>>
           ELSE /\ query_text' = query
                /\ pc' = "vdb_model"
                /\ UNCHANGED <<sql_query, context>>
    /\ parser_response' = <<>>
    /\ UNCHANGED <<model, parsed_intent, llmCalls, conn, nOpened,
                   combined_results_map, vecStatus, vecRows, lexStatus, lexRows,
                   execStatus, rolledBack, exc, results, outcome, answer>>

Dispatch ==
    /\ pc = "retrieve"
    /\ LET intent == parsed_intent.intent
           query == parsed_intent.query
       IN  CASE intent = "semantic" /\ Falsy(query) ->
                  /\ context' = [kind |-> "Parser error: Missing query text for semantic search.", val |-> <<>>]
                  /\ pc' = "synthesize"
                  /\ UNCHANGED <<sql_query, query_text>>
             [] intent = "semantic" /\ ~Falsy(query) ->
                  /\ query_text' = query
                  /\ pc' = "vdb_model"
                  /\ UNCHANGED <<sql_query, context>>
             [] intent = "structured" /\ Falsy(query) ->
                  /\ context' = [kind |-> "Parser error: Missing SQL query for structured search.", val |-> <<>>]
                  /\ pc' = "synthesize"
                  /\ UNCHANGED <<sql_query, query_text>>
             [] intent = "structured" /\ ~Falsy(query) ->
                  /\ sql_query' = query
                  /\ pc' = "rel_connect"
                  /\ UNCHANGED <<query_text, context>>
             [] OTHER ->
                  /\ context' = [kind |-> "Query parser failed or returned unknown intent: ", val |-> <<intent>>]
                  /\ pc' = "synthesize"
                  /\ UNCHANGED <<sql_query, query_text>>
    /\ parser_response' = <<>>
    /\ UNCHANGED <<model, parsed_intent, llmCalls, conn, nOpened,
                   combined_results_map, vecStatus, vecRows, lexStatus, lexRows,
                   execStatus, rolledBack, exc, results, outcome, answer>>

pipelineVars == <<model, parser_response, parsed_intent, llmCalls>>

\* A retrieval function returns r to handle_user_query (lines 160, 165-166).
ReturnToPipeline(kind, r) ==
    /\ results' = r
    /\ context' = [kind |-> kind, val |-> r]
    /\ pc' = "synthesize"
    /\ UNCHANGED <<outcome, answer>>

\* An exception leaves the retrieval function; handle_user_query has no
\* handler around lines 150-167, so it leaves handle_user_query too.
PropagateToCaller ==
    /\ pc' = "done"
    /\ outcome' = "raised"
    /\ UNCHANGED <<results, context, answer>>

\* ------------------------------------------- query_relational_db, lines 53-70
\* _connect_to_db returned None (secret missing or connect raised).
RelConnectFails ==
    /\ pc = "rel_connect"
    /\ ReturnToPipeline("Database query returned: ", <<DB_ERR>>)
    /\ UNCHANGED pipelineVars
    /\ UNCHANGED <<sql_query, query_text, conn, nOpened, combined_results_map,
                   vecStatus, vecRows, lexStatus, lexRows, execStatus,
                   rolledBack, exc>>

RelConnectOk ==
    /\ pc = "rel_connect"
    /\ conn' = "open"
    /\ nOpened' = nOpened + 1
    /\ pc' = "rel_execute"
    /\ UNCHANGED pipelineVars
    /\ UNCHANGED <<sql_query, query_text, combined_results_map, vecStatus,
                   vecRows, lexStatus, lexRows, execStatus, rolledBack, exc,
                   results, context, outcome, answer>>

\* Lines 60-63: execute succeeds; fetchall when the statement has a result
\* set (cur.description), else results = [].
RelExecuteOk ==
    /\ pc = "rel_execute"
    /\ \E hasDescription \in BOOLEAN :
         IF hasDescription
         THEN \E rows \in RowLists : results' = rows
         ELSE results' = <<>>
    /\ execStatus' = "ok"
    /\ pc' = "rel_finally"
    /\ UNCHANGED pipelineVars
    /\ UNCHANGED <<sql_query, query_text, conn, nOpened, combined_results_map,
                   vecStatus, vecRows, lexStatus, lexRows, rolledBack, exc,
                   context, outcome, answer>>

\* cursor(), execute or fetchall raises; the connection may be left broken.
RelExecuteRaises ==
    /\ pc = "rel_execute"
    /\ \E broken \in BOOLEAN : conn' = IF broken THEN "closed" ELSE "open"
    /\ execStatus' = "raised"
    /\ pc' = "rel_except"
    /\ UNCHANGED pipelineVars
    /\ UNCHANGED <<sql_query, query_text, nOpened, combined_results_map,
                   vecStatus, vecRows, lexStatus, lexRows, rolledBack, exc,
                   results, context, outcome, answer>>

\* Line 66: conn.rollback(); results = [(f"SQL error: {e}",)]
RelRollbackOk ==
    /\ pc = "rel_except"
    /\ rolledBack' = TRUE
    /\ results' = <<SQL_ERR>>
    /\ pc' = "rel_finally"
    /\ UNCHANGED pipelineVars
    /\ UNCHANGED <<sql_query, query_text, conn, nOpened, combined_results_map,
                   vecStatus, vecRows, lexStatus, lexRows, execStatus, exc,
                   context, outcome, answer>>

\* Line 66: conn.rollback() raises inside the except clause; the new
\* exception runs the finally clause and then leaves the function.
RelRollbackRaises ==
    /\ pc = "rel_except"
    /\ conn' \in {conn, "closed"}
    /\ exc' = TRUE
    /\ pc' = "rel_finally"
    /\ UNCHANGED pipelineVars
    /\ UNCHANGED <<sql_query, query_text, nOpened, combined_results_map,
                   vecStatus, vecRows, lexStatus, lexRows, execStatus,
                   rolledBack, results, context, outcome, answer>>

\* Lines 67-68: finally: if conn: conn.close()
RelFinallyClose ==
    /\ pc = "rel_finally"
    /\ conn' = "closed"
    /\ IF exc
       THEN PropagateToCaller
       ELSE /\ pc' = "rel_return"
            /\ UNCHANGED <<results, context, outcome, answer>>
    /\ UNCHANGED pipelineVars
    /\ UNCHANGED <<sql_query, query_text, nOpened, combined_results_map,
                   vecStatus, vecRows, lexStatus, lexRows, execStatus,
                   rolledBack, exc>>

\* Lines 69-70.
RelResults(r) == IF r = <<>> THEN <<NO_RESULTS>> ELSE r

RelReturn ==
    /\ pc = "rel_return"
    /\ ReturnToPipeline("Database query returned: ", RelResults(results))
    /\ UNCHANGED pipelineVars
    /\ UNCHANGED <<sql_query, query_text, conn, nOpened, combined_results_map,
                   vecStatus, vecRows, lexStatus, lexRows, execStatus,
                   rolledBack, exc>>

\* ------------------------------------------- query_vector_db, lines 73-154
\* Line 77.
VdbModelMissing ==
    /\ pc = "vdb_model"
    /\ ~model
    /\ ReturnToPipeline("docs", <<MODEL_ERR>>)
    /\ UNCHANGED pipelineVars
    /\ UNCHANGED <<sql_query, query_text, conn, nOpened, combined_results_map,
                   vecStatus, vecRows, lexStatus, lexRows, execStatus,
                   rolledBack, exc>>

\* Lines 80-81, connect fails.
VdbConnectFails ==
    /\ pc = "vdb_model"
    /\ model
    /\ ReturnToPipeline("docs", <<DB_ERR>>)
    /\ UNCHANGED pipelineVars
    /\ UNCHANGED <<sql_query, query_text, conn, nOpened, combined_results_map,
                   vecStatus, vecRows, lexStatus, lexRows, execStatus,
                   rolledBack, exc>>

\* Lines 80-85, connect succeeds.
VdbConnectOk ==
    /\ pc = "vdb_model"
    /\ model
    /\ conn' = "open"
    /\ nOpened' = nOpened + 1
    /\ combined_results_map' = <<>>
    /\ pc' = "vdb_vector"
    /\ UNCHANGED pipelineVars
    /\ UNCHANGED <<sql_query, query_text, vecStatus, vecRows, lexStatus,
                   lexRows, execStatus, rolledBack, exc, results, context,
                   outcome, answer>>

\* Lines 89-106: encode, execute and fetchall succeed; ranks are recorded.
VdbVectorOk ==
    /\ pc = "vdb_vector"
    /\ \E rows \in RowLists :
         /\ vecRows' = rows
         /\ combined_results_map' = MergeVector(combined_results_map, rows)
    /\ vecStatus' = "ok"
    /\ pc' = "vdb_keyword"
    /\ UNCHANGED pipelineVars
    /\ UNCHANGED <<sql_query, query_text, conn, nOpened, lexStatus, lexRows,
                   execStatus, rolledBack, exc, results, context, outcome,
                   answer>>

\* Lines 89-109: encode, register_vector, execute or fetchall raises.
VdbVectorRaises ==
    /\ pc = "vdb_vector"
    /\ \E broken \in BOOLEAN : conn' = IF broken THEN "closed" ELSE "open"
    /\ vecStatus' = "raised"
    /\ pc' = "vdb_except"
    /\ UNCHANGED pipelineVars
    /\ UNCHANGED <<sql_query, query_text, nOpened, combined_results_map,
                   vecRows, lexStatus, lexRows, execStatus, rolledBack, exc,
                   results, context, outcome, answer>>

\* Line 110: conn.rollback() succeeds.
VdbRollbackOk ==
    /\ pc = "vdb_except"
    /\ rolledBack' = TRUE
    /\ pc' = "vdb_keyword"
    /\ UNCHANGED pipelineVars
    /\ UNCHANGED <<sql_query, query_text, conn, nOpened, combined_results_map,
                   vecStatus, vecRows, lexStatus, lexRows, execStatus, exc,
                   results, context, outcome, answer>>

\* Line 110: conn.rollback() raises inside the except clause.  This try has
\* no finally, so the exception leaves query_vector_db at once.
VdbRollbackRaises ==
    /\ pc = "vdb_except"
    /\ conn' \in {conn, "closed"}
    /\ exc' = TRUE
    /\ PropagateToCaller
    /\ UNCHANGED pipelineVars
    /\ UNCHANGED <<sql_query, query_text, nOpened, combined_results_map,
                   vecStatus, vecRows, lexStatus, lexRows, execStatus,
                   rolledBack>>

\* Lines 115-116: conn.closed, reconnect succeeds.
VdbReconnectOk ==
    /\ pc = "vdb_keyword"
    /\ conn = "closed"
    /\ conn' = "open"
    /\ nOpened' = nOpened + 1
    /\ UNCHANGED pc
    /\ UNCHANGED pipelineVars
    /\ UNCHANGED <<sql_query, query_text, combined_results_map, vecStatus,
                   vecRows, lexStatus, lexRows, execStatus, rolledBack, exc,
                   results, context, outcome, answer>>

\* Lines 115-117 and 136-137: the reconnect returns None, the raise is caught.
VdbReconnectFails ==
    /\ pc = "vdb_keyword"
    /\ conn = "closed"
    /\ conn' = "none"
    /\ lexStatus' = "raised"
    /\ pc' = "vdb_finally"
    /\ UNCHANGED pipelineVars
    /\ UNCHANGED <<sql_query, query_text, nOpened, combined_results_map,
                   vecStatus, vecRows, lexRows, execStatus, rolledBack, exc,
                   results, context, outcome, answer>>

\* Lines 119-134: keyword query succeeds; unseen texts get rank 100.
VdbKeywordOk ==
    /\ pc = "vdb_keyword"
    /\ conn = "open"
    /\ \E rows \in RowLists :
         /\ lexRows' = rows
         /\ combined_results_map' = MergeKeyword(combined_results_map, rows)
    /\ lexStatus' = "ok"
    /\ pc' = "vdb_finally"
    /\ UNCHANGED pipelineVars
    /\ UNCHANGED <<sql_query, query_text, conn, nOpened, vecStatus, vecRows,
                   execStatus, rolledBack, exc, results, context, outcome,
                   answer>>

\* Lines 119-137: cursor(), execute or fetchall raises; caught, no rollback.
VdbKeywordRaises ==
    /\ pc = "vdb_keyword"
    /\ conn = "open"
    /\ \E broken \in BOOLEAN : conn' = IF broken THEN "closed" ELSE "open"
    /\ lexStatus' = "raised"
    /\ pc' = "vdb_finally"
    /\ UNCHANGED pipelineVars
    /\ UNCHANGED <<sql_query, query_text, nOpened, combined_results_map,
                   vecStatus, vecRows, lexRows, execStatus, rolledBack, exc,
                   results, context, outcome, answer>>

\* Lines 139-141: finally: if conn and not conn.closed: conn.close()
VdbFinally ==
    /\ pc = "vdb_finally"
    /\ conn' = IF conn = "open" THEN "closed" ELSE conn
    /\ pc' = "vdb_combine"
    /\ UNCHANGED pipelineVars
    /\ UNCHANGED <<sql_query, query_text, nOpened, combined_results_map,
                   vecStatus, vecRows, lexStatus, lexRows, execStatus,
                   rolledBack, exc, results, context, outcome, answer>>

\* Lines 143-154.
VdbCombine ==
    /\ pc = "vdb_combine"
    /\ ReturnToPipeline("docs", RankedResults(combined_results_map))
    /\ UNCHANGED pipelineVars
    /\ UNCHANGED <<sql_query, query_text, conn, nOpened, combined_results_map,
                   vecStatus, vecRows, lexStatus, lexRows, execStatus,
                   rolledBack, exc>>

\* ------------------------------------------- handle_user_query, lines 213-219
\* Variant that issues the synthesis prompt a second time after a failure.
SynthesizeRetry ==
    /\ pc = "synthesize"
    /\ \/ /\ llmCalls' = Append(llmCalls, "synthesis")
          /\ answer' \in {LLM_TEXT, BLOCKED}
       \/ /\ llmCalls' = llmCalls \o <<"synthesis", "synthesis">>
          /\ answer' \in {LLM_TEXT, BLOCKED, ERR_FORMULATE}
    /\ outcome' = "returned"
    /\ pc' = "done"
    /\ UNCHANGED <<model, parser_response, parsed_intent>>
    /\ UNCHANGED retrievalVars

\* The second generate_content call: the text, a blocked response, or an
\* exception (from the call, prompt_feedback or .text) turned into an apology.
Synthesize ==
    /\ pc = "synthesize"
    /\ llmCalls' = Append(llmCalls, "synthesis")
    /\ answer' \in {LLM_TEXT, BLOCKED, ERR_FORMULATE}
    /\ outcome' = "returned"
    /\ pc' = "done"
    /\ UNCHANGED <<model, parser_response, parsed_intent>>
    /\ UNCHANGED retrievalVars

Next ==
    \/ ClassifyRaises
    \/ ClassifyReturns
    \/ Parse
    \/ Dispatch
    \/ RelConnectFails
    \/ RelConnectOk
    \/ RelExecuteOk
    \/ RelExecuteRaises
    \/ RelRollbackOk
    \/ RelRollbackRaises
    \/ RelFinallyClose
    \/ RelReturn
    \/ VdbModelMissing
    \/ VdbConnectFails
    \/ VdbConnectOk
    \/ VdbVectorOk
    \/ VdbVectorRaises
    \/ VdbRollbackOk
    \/ VdbRollbackRaises
    \/ VdbReconnectOk
    \/ VdbReconnectFails
    \/ VdbKeywordOk
    \/ VdbKeywordRaises
    \/ VdbFinally
    \/ VdbCombine
    \/ Synthesize

Spec == Init /\ [][Next]_vars

\* ================================================================ claims
Range(s) == {s[i] : i \in 1..Len(s)}

Distinct(s) == \A i, j \in 1..Len(s) : i /= j => s[i] /= s[j]

\* The texts of s that do not occur in the set seen, in s's order.
NotIn(s, seen) == SelectSeq(s, LAMBDA t : t \notin seen)

\* First occurrences of s, in order.
RECURSIVE Dedup(_)
Dedup(s) ==
    IF s = <<>> THEN <<>>
    ELSE LET front == Dedup(SubSeq(s, 1, Len(s) - 1))
         IN  IF s[Len(s)] \in Range(front) THEN front ELSE Append(front, s[Len(s)])

\* query_vector_db was called and has ended (returned or raised).
VdbEnded == query_text /= None /\ pc \in {"synthesize", "done"}

\* query_vector_db was called and has returned a value.
VdbReturned == VdbEnded /\ outcome /= "raised"

\* query_relational_db was called and has ended (returned or raised).
RelEnded == sql_query /= None /\ pc \in {"synthesize", "done"}

Fused(V, L) == V \o NotIn(L, Range(V))

\* C1: handle_user_query always ends by returning a string; no collaborator
\* exception (including one raised inside the retrieval step) leaves it.
C1_AlwaysReturnsString ==
    pc = "done" => outcome = "returned" /\ answer /= None

\* C2 (as stated): when both searches succeed with pairwise-distinct lists V
\* and L, query_vector_db returns V followed by the texts of L not in V, in
\* L's order, without duplicates.
C2_FusionAsStated ==
    (VdbReturned /\ vecStatus = "ok" /\ lexStatus = "ok"
        /\ Distinct(vecRows) /\ Distinct(lexRows))
    => results = Fused(vecRows, lexRows) /\ Distinct(results)

\* C2 (amended): as above whenever V and L are not both empty; when both are
\* empty the value returned is the one-element no-documents sentinel.
C2_Fusion ==
    (VdbReturned /\ vecStatus = "ok" /\ lexStatus = "ok"
        /\ Distinct(vecRows) /\ Distinct(lexRows))
    => /\ Distinct(results)
       /\ results = IF vecRows = <<>> /\ lexRows = <<>>
                    THEN <<NO_DOCS>>
                    ELSE Fused(vecRows, lexRows)

C2_Witness ==
    /\ VdbReturned
    /\ vecStatus = "ok" /\ lexStatus = "ok"
    /\ vecRows = <<"A", "B">>
    /\ lexRows = <<"B", "C", "A">>
    /\ results = <<"A", "B", "C">>

\* C3: if the vector path fails (model unavailable, encode raises, vector
\* SQL raises), the retrieval does not fail: the keyword search is still
\* attempted and, when it returns L, the result is L deduplicated.
C3_VectorFailureFallsBack ==
    (VdbEnded /\ (~model \/ vecStatus = "raised") /\ lexStatus /= "raised")
    => /\ outcome /= "raised"
       /\ lexStatus = "ok"
       /\ lexRows /= <<>> => results = Dedup(lexRows)

\* C4: whenever both retrieval paths fail (for any cause) or both return no
\* rows, query_vector_db returns exactly the no-documents sentinel.
C4_SentinelWhenNothing ==
    (VdbEnded /\ \/ vecStatus /= "ok" /\ lexStatus /= "ok"
                 \/ /\ vecStatus = "ok" /\ vecRows = <<>>
                    /\ lexStatus = "ok" /\ lexRows = <<>>)
    => outcome /= "raised" /\ results = <<NO_DOCS>>

\* Position of the brace closing the one opened at i (0 when unbalanced).
RECURSIVE CloseOf(_, _, _)
CloseOf(text, j, depth) ==
    IF j > Len(text) THEN 0
    ELSE IF text[j] = "{" THEN CloseOf(text, j + 1, depth + 1)
    ELSE IF text[j] = "}" THEN (IF depth = 1 THEN j ELSE CloseOf(text, j + 1, depth - 1))
    ELSE CloseOf(text, j + 1, depth)

\* The first balanced object-like substring of text (<<>> when none).
FirstBalancedObject(text) ==
    LET starts == {i \in 1..Len(text) : text[i] = "{" /\ CloseOf(text, i + 1, 1) /= 0}
    IN  IF starts = {} THEN <<>>
        ELSE LET i == CHOOSE a \in starts : \A b \in starts : a <= b
             IN  SubSeq(text, i, CloseOf(text, i + 1, 1))

\* C5: whenever the first balanced object of the classification response is
\* {"intent":"structured","query":Q} with non-empty Q, whatever surrounds it,
\* the dispatch step calls query_relational_db with exactly Q.
C5_StructuredRouted ==
    [][\A b \in {"S1", "S2"} :
          (pc = "retrieve" /\ FirstBalancedObject(parser_response) = <<"{", b, "}">>)
          => (pc' = "rel_connect" /\ sql_query' = BodyDict(b).query)]_vars

\* No "{" with a "}" somewhere after it.
NoObjectLike(text) ==
    ~ \E i, j \in 1..Len(text) : i < j /\ text[i] = "{" /\ text[j] = "}"

\* The router reported that the response held no decodable object.
ParseFailed ==
    /\ pc \notin {"classify", "parse"}
    /\ parsed_intent \in {NoJsonDict, InvalidJsonDict}

\* C6 (as stated): with no decodable object in the response, no evidence
\* store call is made and the string returned is a fixed apology.
C6_FixedApology ==
    (pc = "done" /\ ParseFailed)
    => /\ sql_query = None /\ query_text = None
       /\ outcome = "returned"
       /\ answer \in {ERR_UNDERSTAND, ERR_FORMULATE}

\* C6 (amended): with no decodable object the router yields the error intent
\* without raising, no evidence-store call is made and no connection opened,
\* and the pipeline still runs the synthesis call on the "unknown intent:
\* error" context; the string returned is that call's outcome (the model's
\* text, the blocked message or the synthesis apology).
C6_ParseFailureSynthesizes ==
    /\ (pc = "retrieve" /\ NoObjectLike(parser_response)) => parsed_intent = NoJsonDict
    /\ (pc = "retrieve" /\ ~NoObjectLike(parser_response)
          /\ ~JsonDecodes(RegexMatch(parser_response))) => parsed_intent = InvalidJsonDict
    /\ (ParseFailed /\ pc /= "retrieve")
       => /\ pc \in {"synthesize", "done"}
          /\ sql_query = None /\ query_text = None /\ nOpened = 0
          /\ context = [kind |-> "Query parser failed or returned unknown intent: ",
                        val |-> <<"error">>]
    /\ (ParseFailed /\ pc = "done")
       => /\ outcome = "returned"
          /\ llmCalls = <<"classification", "synthesis">>
          /\ answer \in {LLM_TEXT, BLOCKED, ERR_FORMULATE}

C6_Witness ==
    /\ pc = "done"
    /\ parsed_intent = InvalidJsonDict
    /\ llmCalls = <<"classification", "synthesis">>
    /\ answer = LLM_TEXT

\* C7: when SQL execution fails in query_relational_db nothing propagates:
\* the transaction is rolled back and exactly one error row is returned; a
\* returned row list is never empty.
C7_ErrorRowNotException ==
    RelEnded
    => /\ execStatus = "raised"
          => outcome /= "raised" /\ rolledBack /\ results = <<SQL_ERR>>
       /\ outcome /= "raised" => results /= <<>>

\* C8 (as stated): every invocation calls the language model exactly twice,
\* classification then synthesis.
C8_ExactlyTwoCalls ==
    pc = "done" => llmCalls = <<"classification", "synthesis">>

\* C8 (amended): the classification prompt is sent exactly once, first; the
\* synthesis prompt at most once, only after classification and retrieval
\* have completed; an invocation whose classification call raises returns
\* the apology after that single call; no call is repeated.
C8_AtMostTwoCalls ==
    /\ llmCalls \in {<<>>, <<"classification">>, <<"classification", "synthesis">>}
    /\ pc /= "classify" => llmCalls /= <<>>
    /\ Len(llmCalls) = 2
       => pc = "done" /\ outcome = "returned" /\ context /= NoContext
    /\ (pc = "done" /\ outcome = "returned")
       => (Len(llmCalls) = 1 <=> answer = ERR_UNDERSTAND)
    /\ (pc = "done" /\ outcome = "raised") => Len(llmCalls) = 1

C8_Witness ==
    /\ pc = "done"
    /\ sql_query /= None
    /\ execStatus = "ok"
    /\ llmCalls = <<"classification", "synthesis">>
    /\ answer = ERR_FORMULATE

\* Ranks at which text t was seen by the two searches.
RanksSeen(t) ==
    (IF vecStatus = "ok" THEN {i - 1 : i \in {n \in 1..Len(vecRows) : vecRows[n] = t}} ELSE {})
    \cup (IF lexStatus = "ok" /\ t \in Range(lexRows) THEN {KeywordRank} ELSE {})

\* C9: after the merge every text is mapped to the smallest rank at which
\* either search saw it, and the final order follows first occurrences in
\* the vector ordering.
C9_BestRankKept ==
    (query_text /= None /\ pc \in {"vdb_finally", "vdb_combine", "synthesize", "done"})
    => /\ \A i \in 1..Len(combined_results_map) :
            LET e == combined_results_map[i]
            IN  /\ RanksSeen(e.k) /= {}
                /\ \A r \in RanksSeen(e.k) : e.v <= r
       /\ (VdbReturned /\ vecStatus = "ok" /\ vecRows /= <<>>)
          => SubSeq(results, 1, Len(Dedup(vecRows))) = Dedup(vecRows)

\* C10: every connection opened by a retrieval call is closed by the time
\* the call ends, whether it returns or raises.
C10_NoConnectionLeftOpen ==
    pc \in {"synthesize", "done"} => conn /= "open"

====
